---- MODULE Spec2Model ----
(***************************************************************************)
(* The streaming response decoder of the article-search front end:         *)
(* call_ai (src/frontend/app.py) as a generator driven by one caller.      *)
(* Strings are sequences of one-character strings, so that startswith,     *)
(* replace and strip are computed character by character as Python does.   *)
(***************************************************************************)
EXTENDS Integers, Sequences, FiniteSets, TLC

\* ---------------------------------------------------------------- bounds
\* Largest number of chunks the transport delivers in one response.
MaxFrags == 3
\* Largest size of one response body, counted in pieces (see Pieces).
MaxBody == 4

\* ------------------------------------------------------- string literals
ModelMarker == <<"_", "_", "m", "o", "d", "e", "l", "_", "u", "s", "e", "d", "_", "_", ":">>
ErrorMarker == <<"_", "_", "e", "r", "r", "o", "r", "_", "_">>
TruncatedMarker == <<"_", "_", "t", "r", "u", "n", "c", "a", "t", "e", "d", "_", "_">>
ErrorMessage == <<"R", "e", "q", "u", "e", "s", "t", " ", "f", "a", "i", "l", "e", "d", ".", " ", "P", "l", "e", "a", "s", "e", " ", "t", "r", "y", " ", "a", "g", "a", "i", "n", " ", "l", "a", "t", "e", "r", ".">>
TruncatedMessage == <<"A", "I", " ", "r", "e", "s", "p", "o", "n", "s", "e", " ", "t", "r", "u", "n", "c", "a", "t", "e", "d", " ", "d", "u", "e", " ", "t", "o", " ", "t", "o", "k", "e", "n", " ", "l", "i", "m", "i", "t", ".">>
ExceptPrefix == <<"R", "e", "q", "u", "e", "s", "t", " ", "f", "a", "i", "l", "e", "d", ":", " ">>
EmptyStr == << >>

\* ------------------------------------------------------------ input sets
\* The response body is made of these pieces; the transport cuts it into
\* chunks at piece boundaries, so a chunk is the concatenation of zero or
\* more pieces: whole markers, ordinary text, whitespace, part of a marker.
PartialMarker == <<"_", "_", "e", "r", "r">>
\* Whitespace: a space and a form feed, both of which strip() removes.
Blank == <<" ", "\f">>
Pieces == {ModelMarker, ErrorMarker, TruncatedMarker, <<"a">>, Blank, PartialMarker}

\* str(e) of the exceptions the transport raises.
ExcMessages == {<<"t", "i", "m", "e", "o", "u", "t">>, <<"r", "e", "s", "e", "t">>}

\* Answers and finish reasons of the non-streaming response object.
Answers == {<<"d", "o", "n", "e">>, <<"a">>, EmptyStr}
FinishReasons == {"length", "stop", "none"}

PieceSeqs(n) == UNION {[1..k -> Pieces] : k \in 0..n}

RECURSIVE Flatten(_)
Flatten(ps) == IF ps = << >> THEN << >> ELSE Head(ps) \o Flatten(Tail(ps))

\* ------------------------------------------------------ string functions
\* str.startswith(prefix)
StartsWith(s, p) == Len(s) >= Len(p) /\ SubSeq(s, 1, Len(p)) = p

\* str.replace(old, ""): every non-overlapping occurrence, left to right.
RECURSIVE Remove(_, _)
Remove(s, old) ==
    IF s = << >> THEN << >>
    ELSE IF StartsWith(s, old) THEN Remove(SubSeq(s, Len(old) + 1, Len(s)), old)
    ELSE <<Head(s)>> \o Remove(Tail(s), old)

\* ----------------------------------------------------------- characters
\* The characters the model's strings are written in, each with its code
\* point: all of ASCII, every character str.isspace() accepts, and some
\* cased letters outside ASCII.  A character that cannot be written in a
\* string literal is named by its code point, "U+00A0".
CharTable == <<
    <<"U+0000", 0>>, <<"U+0001", 1>>, <<"U+0002", 2>>, <<"U+0003", 3>>, <<"U+0004", 4>>, <<"U+0005", 5>>,
    <<"U+0006", 6>>, <<"U+0007", 7>>, <<"U+0008", 8>>, <<"\t", 9>>, <<"\n", 10>>, <<"U+000B", 11>>,
    <<"\f", 12>>, <<"\r", 13>>, <<"U+000E", 14>>, <<"U+000F", 15>>, <<"U+0010", 16>>, <<"U+0011", 17>>,
    <<"U+0012", 18>>, <<"U+0013", 19>>, <<"U+0014", 20>>, <<"U+0015", 21>>, <<"U+0016", 22>>, <<"U+0017", 23>>,
    <<"U+0018", 24>>, <<"U+0019", 25>>, <<"U+001A", 26>>, <<"U+001B", 27>>, <<"U+001C", 28>>, <<"U+001D", 29>>,
    <<"U+001E", 30>>, <<"U+001F", 31>>, <<" ", 32>>, <<"!", 33>>, <<"\"", 34>>, <<"#", 35>>,
    <<"$", 36>>, <<"%", 37>>, <<"&", 38>>, <<"'", 39>>, <<"(", 40>>, <<")", 41>>,
    <<"*", 42>>, <<"+", 43>>, <<",", 44>>, <<"-", 45>>, <<".", 46>>, <<"/", 47>>,
    <<"0", 48>>, <<"1", 49>>, <<"2", 50>>, <<"3", 51>>, <<"4", 52>>, <<"5", 53>>,
    <<"6", 54>>, <<"7", 55>>, <<"8", 56>>, <<"9", 57>>, <<":", 58>>, <<";", 59>>,
    <<"<", 60>>, <<"=", 61>>, <<">", 62>>, <<"?", 63>>, <<"@", 64>>, <<"A", 65>>,
    <<"B", 66>>, <<"C", 67>>, <<"D", 68>>, <<"E", 69>>, <<"F", 70>>, <<"G", 71>>,
    <<"H", 72>>, <<"I", 73>>, <<"J", 74>>, <<"K", 75>>, <<"L", 76>>, <<"M", 77>>,
    <<"N", 78>>, <<"O", 79>>, <<"P", 80>>, <<"Q", 81>>, <<"R", 82>>, <<"S", 83>>,
    <<"T", 84>>, <<"U", 85>>, <<"V", 86>>, <<"W", 87>>, <<"X", 88>>, <<"Y", 89>>,
    <<"Z", 90>>, <<"[", 91>>, <<"\\", 92>>, <<"]", 93>>, <<"^", 94>>, <<"_", 95>>,
    <<"U+0060", 96>>, <<"a", 97>>, <<"b", 98>>, <<"c", 99>>, <<"d", 100>>, <<"e", 101>>,
    <<"f", 102>>, <<"g", 103>>, <<"h", 104>>, <<"i", 105>>, <<"j", 106>>, <<"k", 107>>,
    <<"l", 108>>, <<"m", 109>>, <<"n", 110>>, <<"o", 111>>, <<"p", 112>>, <<"q", 113>>,
    <<"r", 114>>, <<"s", 115>>, <<"t", 116>>, <<"u", 117>>, <<"v", 118>>, <<"w", 119>>,
    <<"x", 120>>, <<"y", 121>>, <<"z", 122>>, <<"{", 123>>, <<"|", 124>>, <<"}", 125>>,
    <<"~", 126>>, <<"U+007F", 127>>, <<"U+0085", 133>>, <<"U+00A0", 160>>, <<"U+00C9", 201>>, <<"U+00E9", 233>>,
    <<"U+0130", 304>>, <<"U+0307", 775>>, <<"U+03A3", 931>>, <<"U+03C2", 962>>, <<"U+03C3", 963>>, <<"U+0414", 1044>>,
    <<"U+0434", 1076>>, <<"U+1680", 5760>>, <<"U+2000", 8192>>, <<"U+2001", 8193>>, <<"U+2002", 8194>>, <<"U+2003", 8195>>,
    <<"U+2004", 8196>>, <<"U+2005", 8197>>, <<"U+2006", 8198>>, <<"U+2007", 8199>>, <<"U+2008", 8200>>, <<"U+2009", 8201>>,
    <<"U+200A", 8202>>, <<"U+2028", 8232>>, <<"U+2029", 8233>>, <<"U+202F", 8239>>, <<"U+205F", 8287>>, <<"U+3000", 12288>> >>

Chars == {CharTable[i][1] : i \in DOMAIN CharTable}

\* ord(c) and chr(n)
Ord == [c \in Chars |-> CharTable[CHOOSE i \in DOMAIN CharTable : CharTable[i][1] = c][2]]
Chr(n) == CharTable[CHOOSE i \in DOMAIN CharTable : CharTable[i][2] = n][1]

\* The code points for which str.isspace() is true.
WhitespaceCodes == {9, 10, 11, 12, 13, 28, 29, 30, 31, 32, 133, 160, 5760, 8192, 8193, 8194, 8195, 8196, 8197, 8198, 8199, 8200, 8201, 8202, 8232, 8233, 8239, 8287, 12288}

\* The characters str.strip() removes: c.isspace()
IsSpace(c) == Ord[c] \in WhitespaceCodes

RECURSIVE LStrip(_)
LStrip(s) == IF s # << >> /\ IsSpace(Head(s)) THEN LStrip(Tail(s)) ELSE s

RECURSIVE RStrip(_)
RStrip(s) ==
    IF s # << >> /\ IsSpace(s[Len(s)]) THEN RStrip(SubSeq(s, 1, Len(s) - 1)) ELSE s

\* str.strip()
Strip(s) == RStrip(LStrip(s))

\* ---------------------------------------------------------------- state
VARIABLES
    streaming,    \* the streaming argument of this call_ai run
    pc,           \* where the generator stands
    conn,         \* the streaming response r: "none", "open", "closed"
    consumed,     \* the chunks iter_content has delivered so far
    used,         \* pieces of the body delivered so far
    answer_text,  \* the local answer_text
    events,       \* the (type, content) tuples yielded so far
    failure,      \* str(e) of the exception caught, or "none" as <<"-">>
    response,     \* the non-streaming response object, once received
    cancelled,    \* the caller closed the generator
    handler,      \* the Gradio handler driving the run, "none" for a bare call_ai run
    hpc,          \* where the handler stands
    query_text,   \* the handler's query_text argument
    provider,     \* the handler's provider argument
    model,        \* the handler's model argument
    calls,        \* the backend helpers invoked so far, with their payloads
    answer_html,  \* the handler's local answer_html, a sequence of cards
    model_info,   \* the handler's local model_info
    handled,      \* the events of call_ai the handler's loop has taken
    outputs,      \* the (html, model_info) pairs the handler yielded or returned
    runs,         \* two call_ai generators driven side by side: their frames
    texts         \* the answer_text of each of the two frames

\* The state of one call_ai run, and the state of the handler around it.
cvars == <<streaming, pc, conn, consumed, used, answer_text, events, failure, response, cancelled>>
hvars == <<handler, hpc, query_text, provider, model, calls, answer_html, model_info, handled, outputs>>
pvars == <<runs, texts>>
vars == <<streaming, pc, conn, consumed, used, answer_text, events, failure, response, cancelled,
          handler, hpc, query_text, provider, model, calls, answer_html, model_info, handled, outputs,
          runs, texts>>

NoFailure == <<"-">>
NoResponse == [has_answer |-> FALSE, answer |-> EmptyStr, finish_reason |-> "none"]

Event(type, content) == [type |-> type, content |-> content]

\* The generator is suspended at a yield in these positions.
YieldPcs == {"yield_chunk", "yield_error_marker", "yield_except", "yield_answer", "yield_finish"}

\* model_info before a handler sets it, and the "" of the validation outputs.
NoInfo == [provider |-> EmptyStr, has_model |-> FALSE, model |-> EmptyStr]

\* A fresh call_ai generator: nothing of its body has run.
FreshRun ==
    /\ pc = "start"
    /\ conn = "none"
    /\ consumed = << >>
    /\ used = 0
    /\ answer_text = EmptyStr
    /\ events = << >>
    /\ failure = NoFailure
    /\ response = NoResponse
    /\ cancelled = FALSE

\* No handler: call_ai is driven by an arbitrary caller.
NoHandler ==
    /\ handler = "none"
    /\ hpc = "idle"
    /\ query_text = EmptyStr
    /\ provider = EmptyStr
    /\ model = EmptyStr
    /\ calls = << >>
    /\ answer_html = << >>
    /\ model_info = NoInfo
    /\ handled = 0
    /\ outputs = << >>

\* The two frames of the side-by-side runs, before either has run.
RunIds == {1, 2}
FreshFrame == [pc |-> "start", consumed |-> << >>, used |-> 0,
               events |-> << >>, failure |-> NoFailure]
FreshPair ==
    /\ runs = [r \in RunIds |-> FreshFrame]
    /\ texts = [r \in RunIds |-> EmptyStr]

Init ==
    /\ streaming \in BOOLEAN
    /\ FreshRun
    /\ NoHandler
    /\ FreshPair

\* The event a non-empty chunk is decoded into (the if/elif chain).
ModelName(chunk) == Strip(Remove(chunk, ModelMarker))

\* Variant: an empty chunk is not skipped.
ChunkKind_NoEmptySkip(chunk) ==
    IF StartsWith(chunk, ModelMarker) THEN "model"
    ELSE IF StartsWith(chunk, ErrorMarker) THEN "error"
    ELSE IF StartsWith(chunk, TruncatedMarker) THEN "truncated"
    ELSE "text"

\* Variant: the prefix test is made on the trimmed chunk.
ChunkKind_Stripped(chunk) ==
    IF chunk = << >> THEN "empty"
    ELSE IF StartsWith(Strip(chunk), ModelMarker) THEN "model"
    ELSE IF StartsWith(Strip(chunk), ErrorMarker) THEN "error"
    ELSE IF StartsWith(Strip(chunk), TruncatedMarker) THEN "truncated"
    ELSE "text"

\* Variant: a whitespace-only chunk is skipped like an empty one.
ChunkKind_BlankSkipped(chunk) ==
    IF Strip(chunk) = << >> THEN "empty"
    ELSE IF StartsWith(chunk, ModelMarker) THEN "model"
    ELSE IF StartsWith(chunk, ErrorMarker) THEN "error"
    ELSE IF StartsWith(chunk, TruncatedMarker) THEN "truncated"
    ELSE "text"

ChunkKind(chunk) ==
    IF chunk = << >> THEN "empty"
    ELSE IF StartsWith(chunk, ModelMarker) THEN "model"
    ELSE IF StartsWith(chunk, ErrorMarker) THEN "error"
    ELSE IF StartsWith(chunk, TruncatedMarker) THEN "truncated"
    ELSE "text"

\* Variant: a text event carries the new chunk only.
ChunkEvent_Delta(chunk, text) ==
    CASE ChunkKind(chunk) = "model" -> Event("model", ModelName(chunk))
      [] ChunkKind(chunk) = "error" -> Event("error", ErrorMessage)
      [] ChunkKind(chunk) = "truncated" -> Event("truncated", TruncatedMessage)
      [] OTHER -> Event("text", chunk)

ChunkEvent(chunk, text) ==
    CASE ChunkKind(chunk) = "model" -> Event("model", ModelName(chunk))
      [] ChunkKind(chunk) = "error" -> Event("error", ErrorMessage)
      [] ChunkKind(chunk) = "truncated" -> Event("truncated", TruncatedMessage)
      [] OTHER -> Event("text", text \o chunk)

\* Variant: every chunk is appended to the text.
NextAnswerText_Always(chunk, text) == text \o chunk

\* answer_text after a non-empty chunk: only the else branch appends.
NextAnswerText(chunk, text) ==
    IF ChunkKind(chunk) = "text" THEN text \o chunk ELSE text

\* Variant: the error marker does not leave the loop.
AfterYield_NoBreak(chunk) == "yield_chunk"

\* Where the generator is suspended after the event of a non-empty chunk:
\* the error marker's yield is followed by break.
AfterYield(chunk) ==
    IF ChunkKind(chunk) = "error" THEN "yield_error_marker" ELSE "yield_chunk"

\* except Exception as e: yield "error", f"Request failed: {str(e)}"
ExceptEvent(e) == Event("error", ExceptPrefix \o e)

\* The first next() of a streaming run: requests.post and raise_for_status
\* succeed and the response is entered as a context manager.
PostStream ==
    /\ pc = "start" /\ streaming
    /\ pc' = "iter"
    /\ conn' = "open"
    /\ UNCHANGED <<streaming, consumed, used, answer_text, events, failure, response, cancelled>>
    /\ UNCHANGED hvars
    /\ UNCHANGED pvars

\* requests.post fails to connect: no response object exists.
PostStreamConnectFails ==
    /\ pc = "start" /\ streaming
    /\ \E e \in ExcMessages :
          /\ failure' = e
          /\ events' = Append(events, ExceptEvent(e))
    /\ pc' = "yield_except"
    /\ UNCHANGED <<streaming, conn, consumed, used, answer_text, response, cancelled>>
    /\ UNCHANGED hvars
    /\ UNCHANGED pvars

\* raise_for_status raises inside the with block: the response is closed.
PostStreamStatusFails ==
    /\ pc = "start" /\ streaming
    /\ \E e \in ExcMessages :
          /\ failure' = e
          /\ events' = Append(events, ExceptEvent(e))
    /\ pc' = "yield_except"
    /\ conn' = "closed"
    /\ UNCHANGED <<streaming, consumed, used, answer_text, response, cancelled>>
    /\ UNCHANGED hvars
    /\ UNCHANGED pvars

\* One turn of the for loop: iter_content delivers a chunk.
IterChunk ==
    /\ pc = "iter"
    /\ Len(consumed) < MaxFrags
    /\ \E ps \in PieceSeqs(MaxBody - used) :
          LET chunk == Flatten(ps) IN
          /\ consumed' = Append(consumed, chunk)
          /\ used' = used + Len(ps)
          /\ IF ChunkKind(chunk) = "empty"
             THEN /\ pc' = "iter"
                  /\ UNCHANGED <<answer_text, events>>
             ELSE /\ events' = Append(events, ChunkEvent(chunk, answer_text))
                  /\ answer_text' = NextAnswerText(chunk, answer_text)
                  /\ pc' = AfterYield(chunk)
    /\ UNCHANGED <<streaming, conn, failure, response, cancelled>>
    /\ UNCHANGED hvars
    /\ UNCHANGED pvars

\* iter_content is exhausted: the with block exits and the generator returns.
IterStop ==
    /\ pc = "iter"
    /\ pc' = "done"
    /\ conn' = "closed"
    /\ UNCHANGED <<streaming, consumed, used, answer_text, events, failure, response, cancelled>>
    /\ UNCHANGED hvars
    /\ UNCHANGED pvars

\* Variant: the exception leaves call_ai.
IterRaises_Propagates ==
    /\ pc = "iter"
    /\ \E e \in ExcMessages : failure' = e
    /\ pc' = "raised"
    /\ conn' = "closed"
    /\ UNCHANGED <<streaming, consumed, used, answer_text, events, response, cancelled>>
    /\ UNCHANGED hvars
    /\ UNCHANGED pvars

\* iter_content raises: the with block closes the response, the except
\* clause yields the error event.
IterRaises ==
    /\ pc = "iter"
    /\ \E e \in ExcMessages :
          /\ failure' = e
          /\ events' = Append(events, ExceptEvent(e))
    /\ pc' = "yield_except"
    /\ conn' = "closed"
    /\ UNCHANGED <<streaming, consumed, used, answer_text, response, cancelled>>
    /\ UNCHANGED hvars
    /\ UNCHANGED pvars

\* The caller's next() while the generator is suspended after a chunk event.
ResumeChunk ==
    /\ pc = "yield_chunk"
    /\ pc' = "iter"
    /\ UNCHANGED <<streaming, conn, consumed, used, answer_text, events, failure, response, cancelled>>
    /\ UNCHANGED hvars
    /\ UNCHANGED pvars

\* Variant: the loop goes on after the error marker's event.
ResumeBreak_Continue ==
    /\ pc = "yield_error_marker"
    /\ pc' = "iter"
    /\ UNCHANGED <<streaming, conn, consumed, used, answer_text, events, failure, response, cancelled>>
    /\ UNCHANGED hvars
    /\ UNCHANGED pvars

\* next() after the error marker's event: break, the with block exits.
ResumeBreak ==
    /\ pc = "yield_error_marker"
    /\ pc' = "done"
    /\ conn' = "closed"
    /\ UNCHANGED <<streaming, consumed, used, answer_text, events, failure, response, cancelled>>
    /\ UNCHANGED hvars
    /\ UNCHANGED pvars

\* next() after the except clause's event: the generator returns.
ResumeExcept ==
    /\ pc = "yield_except"
    /\ pc' = "done"
    /\ UNCHANGED <<streaming, conn, consumed, used, answer_text, events, failure, response, cancelled>>
    /\ UNCHANGED hvars
    /\ UNCHANGED pvars

\* The first next() of a non-streaming run: post, raise_for_status and
\* json() succeed; the answer is yielded.
PostPlain ==
    /\ pc = "start" /\ ~streaming
    /\ \E has \in BOOLEAN, a \in Answers, fr \in FinishReasons :
          /\ (~has => a = EmptyStr)
          /\ response' = [has_answer |-> has, answer |-> a, finish_reason |-> fr]
          /\ answer_text' = a
          /\ events' = Append(events, Event("text", a))
    /\ pc' = "yield_answer"
    /\ UNCHANGED <<streaming, conn, consumed, used, failure, cancelled>>
    /\ UNCHANGED hvars
    /\ UNCHANGED pvars

\* post, raise_for_status or json() raises in a non-streaming run.
PostPlainFails ==
    /\ pc = "start" /\ ~streaming
    /\ \E e \in ExcMessages :
          /\ failure' = e
          /\ events' = Append(events, ExceptEvent(e))
    /\ pc' = "yield_except"
    /\ UNCHANGED <<streaming, conn, consumed, used, answer_text, response, cancelled>>
    /\ UNCHANGED hvars
    /\ UNCHANGED pvars

\* Variant: every finish_reason other than "stop" counts as truncation.
ResumeAnswer_NotStop ==
    /\ pc = "yield_answer"
    /\ IF response.finish_reason # "stop"
       THEN /\ events' = Append(events, Event("truncated", TruncatedMessage))
            /\ pc' = "yield_finish"
       ELSE /\ pc' = "done"
            /\ UNCHANGED events
    /\ UNCHANGED <<streaming, conn, consumed, used, answer_text, failure, response, cancelled>>
    /\ UNCHANGED hvars
    /\ UNCHANGED pvars

\* next() after the answer: the finish_reason test.
ResumeAnswer ==
    /\ pc = "yield_answer"
    /\ IF response.finish_reason = "length"
       THEN /\ events' = Append(events, Event("truncated", TruncatedMessage))
            /\ pc' = "yield_finish"
       ELSE /\ pc' = "done"
            /\ UNCHANGED events
    /\ UNCHANGED <<streaming, conn, consumed, used, answer_text, failure, response, cancelled>>
    /\ UNCHANGED hvars
    /\ UNCHANGED pvars

\* next() after the non-streaming truncation event: the generator returns.
ResumeFinish ==
    /\ pc = "yield_finish"
    /\ pc' = "done"
    /\ UNCHANGED <<streaming, conn, consumed, used, answer_text, events, failure, response, cancelled>>
    /\ UNCHANGED hvars
    /\ UNCHANGED pvars

\* Variant: the response is not a context manager and stays open.
Cancel_NoClose ==
    /\ pc \in YieldPcs
    /\ pc' = "done"
    /\ cancelled' = TRUE
    /\ UNCHANGED <<streaming, conn, consumed, used, answer_text, events, failure, response>>
    /\ UNCHANGED hvars
    /\ UNCHANGED pvars

\* The caller closes the suspended generator: GeneratorExit is raised at
\* the yield, is not caught by except Exception, and leaves the with block.
Cancel ==
    /\ pc \in YieldPcs
    /\ pc' = "done"
    /\ cancelled' = TRUE
    /\ conn' = IF conn = "open" THEN "closed" ELSE conn
    /\ UNCHANGED <<streaming, consumed, used, answer_text, events, failure, response>>
    /\ UNCHANGED hvars
    /\ UNCHANGED pvars

\* ------------------------------------------------------------- handlers
\* The Gradio handlers around call_ai.  Rendered HTML is a sequence of
\* cards, one per <div> the handlers concatenate; the HTML that the
\* markdown library makes of a text is left inside its card.
ValidationMessage == <<"P", "l", "e", "a", "s", "e", " ", "e", "n", "t", "e", "r", " ", "a", " ", "q", "u", "e", "r", "y", " ", "t", "e", "x", "t", ".">>
SelectMessage == <<"P", "l", "e", "a", "s", "e", " ", "s", "e", "l", "e", "c", "t", " ", "p", "r", "o", "v", "i", "d", "e", "r", " ", "a", "n", "d", " ", "m", "o", "d", "e", "l", ".">>
NoResultsMessage == <<"N", "o", " ", "r", "e", "s", "u", "l", "t", "s", " ", "f", "o", "u", "n", "d", ".">>
FetchPrefix == <<"F", "a", "i", "l", "e", "d", " ", "t", "o", " ", "f", "e", "t", "c", "h", " ", "t", "i", "t", "l", "e", "s", ":", " ">>
AutoModel == <<"A", "u", "t", "o", "m", "a", "t", "i", "c", " ", "M", "o", "d", "e", "l", " ", "S", "e", "l", "e", "c", "t", "i", "o", "n", " ", "(", "M", "o", "d", "e", "l", " ", "R", "o", "u", "t", "i", "n", "g", ")">>

\* The simple lower-case mapping of Unicode as ranges <<first, last, step,
\* offset>>: a code point n of first..last with (n - first) % step = 0
\* maps to n + offset.
LowerRules == <<
    <<65, 90, 1, 32>>, <<192, 214, 1, 32>>, <<216, 222, 1, 32>>, <<256, 302, 2, 1>>,
    <<306, 310, 2, 1>>, <<313, 327, 2, 1>>, <<330, 374, 2, 1>>, <<376, 376, 1, -121>>,
    <<377, 381, 2, 1>>, <<385, 385, 1, 210>>, <<386, 388, 2, 1>>, <<390, 390, 1, 206>>,
    <<391, 391, 1, 1>>, <<393, 394, 1, 205>>, <<395, 395, 1, 1>>, <<398, 398, 1, 79>>,
    <<399, 399, 1, 202>>, <<400, 400, 1, 203>>, <<401, 401, 1, 1>>, <<403, 403, 1, 205>>,
    <<404, 404, 1, 207>>, <<406, 406, 1, 211>>, <<407, 407, 1, 209>>, <<408, 408, 1, 1>>,
    <<412, 412, 1, 211>>, <<413, 413, 1, 213>>, <<415, 415, 1, 214>>, <<416, 420, 2, 1>>,
    <<422, 422, 1, 218>>, <<423, 423, 1, 1>>, <<425, 425, 1, 218>>, <<428, 428, 1, 1>>,
    <<430, 430, 1, 218>>, <<431, 431, 1, 1>>, <<433, 434, 1, 217>>, <<435, 437, 2, 1>>,
    <<439, 439, 1, 219>>, <<440, 440, 1, 1>>, <<444, 444, 1, 1>>, <<452, 452, 1, 2>>,
    <<453, 453, 1, 1>>, <<455, 455, 1, 2>>, <<456, 456, 1, 1>>, <<458, 458, 1, 2>>,
    <<459, 475, 2, 1>>, <<478, 494, 2, 1>>, <<497, 497, 1, 2>>, <<498, 500, 2, 1>>,
    <<502, 502, 1, -97>>, <<503, 503, 1, -56>>, <<504, 542, 2, 1>>, <<544, 544, 1, -130>>,
    <<546, 562, 2, 1>>, <<570, 570, 1, 10795>>, <<571, 571, 1, 1>>, <<573, 573, 1, -163>>,
    <<574, 574, 1, 10792>>, <<577, 577, 1, 1>>, <<579, 579, 1, -195>>, <<580, 580, 1, 69>>,
    <<581, 581, 1, 71>>, <<582, 590, 2, 1>>, <<880, 882, 2, 1>>, <<886, 886, 1, 1>>,
    <<895, 895, 1, 116>>, <<902, 902, 1, 38>>, <<904, 906, 1, 37>>, <<908, 908, 1, 64>>,
    <<910, 911, 1, 63>>, <<913, 929, 1, 32>>, <<931, 939, 1, 32>>, <<975, 975, 1, 8>>,
    <<984, 1006, 2, 1>>, <<1012, 1012, 1, -60>>, <<1015, 1015, 1, 1>>, <<1017, 1017, 1, -7>>,
    <<1018, 1018, 1, 1>>, <<1021, 1023, 1, -130>>, <<1024, 1039, 1, 80>>, <<1040, 1071, 1, 32>>,
    <<1120, 1152, 2, 1>>, <<1162, 1214, 2, 1>>, <<1216, 1216, 1, 15>>, <<1217, 1229, 2, 1>>,
    <<1232, 1326, 2, 1>>, <<1329, 1366, 1, 48>>, <<4256, 4293, 1, 7264>>, <<4295, 4295, 1, 7264>>,
    <<4301, 4301, 1, 7264>>, <<5024, 5103, 1, 38864>>, <<5104, 5109, 1, 8>>, <<7312, 7354, 1, -3008>>,
    <<7357, 7359, 1, -3008>>, <<7680, 7828, 2, 1>>, <<7838, 7838, 1, -7615>>, <<7840, 7934, 2, 1>>,
    <<7944, 7951, 1, -8>>, <<7960, 7965, 1, -8>>, <<7976, 7983, 1, -8>>, <<7992, 7999, 1, -8>>,
    <<8008, 8013, 1, -8>>, <<8025, 8031, 2, -8>>, <<8040, 8047, 1, -8>>, <<8072, 8079, 1, -8>>,
    <<8088, 8095, 1, -8>>, <<8104, 8111, 1, -8>>, <<8120, 8121, 1, -8>>, <<8122, 8123, 1, -74>>,
    <<8124, 8124, 1, -9>>, <<8136, 8139, 1, -86>>, <<8140, 8140, 1, -9>>, <<8152, 8153, 1, -8>>,
    <<8154, 8155, 1, -100>>, <<8168, 8169, 1, -8>>, <<8170, 8171, 1, -112>>, <<8172, 8172, 1, -7>>,
    <<8184, 8185, 1, -128>>, <<8186, 8187, 1, -126>>, <<8188, 8188, 1, -9>>, <<8486, 8486, 1, -7517>>,
    <<8490, 8490, 1, -8383>>, <<8491, 8491, 1, -8262>>, <<8498, 8498, 1, 28>>, <<8544, 8559, 1, 16>>,
    <<8579, 8579, 1, 1>>, <<9398, 9423, 1, 26>>, <<11264, 11311, 1, 48>>, <<11360, 11360, 1, 1>>,
    <<11362, 11362, 1, -10743>>, <<11363, 11363, 1, -3814>>, <<11364, 11364, 1, -10727>>, <<11367, 11371, 2, 1>>,
    <<11373, 11373, 1, -10780>>, <<11374, 11374, 1, -10749>>, <<11375, 11375, 1, -10783>>, <<11376, 11376, 1, -10782>>,
    <<11378, 11378, 1, 1>>, <<11381, 11381, 1, 1>>, <<11390, 11391, 1, -10815>>, <<11392, 11490, 2, 1>>,
    <<11499, 11501, 2, 1>>, <<11506, 11506, 1, 1>>, <<42560, 42604, 2, 1>>, <<42624, 42650, 2, 1>>,
    <<42786, 42798, 2, 1>>, <<42802, 42862, 2, 1>>, <<42873, 42875, 2, 1>>, <<42877, 42877, 1, -35332>>,
    <<42878, 42886, 2, 1>>, <<42891, 42891, 1, 1>>, <<42893, 42893, 1, -42280>>, <<42896, 42898, 2, 1>>,
    <<42902, 42920, 2, 1>>, <<42922, 42922, 1, -42308>>, <<42923, 42923, 1, -42319>>, <<42924, 42924, 1, -42315>>,
    <<42925, 42925, 1, -42305>>, <<42926, 42926, 1, -42308>>, <<42928, 42928, 1, -42258>>, <<42929, 42929, 1, -42282>>,
    <<42930, 42930, 1, -42261>>, <<42931, 42931, 1, 928>>, <<42932, 42946, 2, 1>>, <<42948, 42948, 1, -48>>,
    <<42949, 42949, 1, -42307>>, <<42950, 42950, 1, -35384>>, <<42951, 42953, 2, 1>>, <<42960, 42960, 1, 1>>,
    <<42966, 42968, 2, 1>>, <<42997, 42997, 1, 1>>, <<65313, 65338, 1, 32>>, <<66560, 66599, 1, 40>>,
    <<66736, 66771, 1, 40>>, <<66928, 66938, 1, 39>>, <<66940, 66954, 1, 39>>, <<66956, 66962, 1, 39>>,
    <<66964, 66965, 1, 39>>, <<68736, 68786, 1, 64>>, <<71840, 71871, 1, 32>>, <<93760, 93791, 1, 32>>,
    <<125184, 125217, 1, 34>> >>

\* Ranges <<first, last>> of the cased code points that are not
\* case-ignorable, and of the case-ignorable code points.
CasedRanges == <<
    <<65, 90>>, <<97, 122>>, <<170, 170>>, <<181, 181>>, <<186, 186>>, <<192, 214>>,
    <<216, 246>>, <<248, 442>>, <<444, 447>>, <<452, 659>>, <<661, 687>>, <<880, 883>>,
    <<886, 887>>, <<891, 893>>, <<895, 895>>, <<902, 902>>, <<904, 906>>, <<908, 908>>,
    <<910, 929>>, <<931, 1013>>, <<1015, 1153>>, <<1162, 1327>>, <<1329, 1366>>, <<1376, 1416>>,
    <<4256, 4293>>, <<4295, 4295>>, <<4301, 4301>>, <<4304, 4346>>, <<4349, 4351>>, <<5024, 5109>>,
    <<5112, 5117>>, <<7296, 7304>>, <<7312, 7354>>, <<7357, 7359>>, <<7424, 7467>>, <<7531, 7543>>,
    <<7545, 7578>>, <<7680, 7957>>, <<7960, 7965>>, <<7968, 8005>>, <<8008, 8013>>, <<8016, 8023>>,
    <<8025, 8025>>, <<8027, 8027>>, <<8029, 8029>>, <<8031, 8061>>, <<8064, 8116>>, <<8118, 8124>>,
    <<8126, 8126>>, <<8130, 8132>>, <<8134, 8140>>, <<8144, 8147>>, <<8150, 8155>>, <<8160, 8172>>,
    <<8178, 8180>>, <<8182, 8188>>, <<8450, 8450>>, <<8455, 8455>>, <<8458, 8467>>, <<8469, 8469>>,
    <<8473, 8477>>, <<8484, 8484>>, <<8486, 8486>>, <<8488, 8488>>, <<8490, 8493>>, <<8495, 8500>>,
    <<8505, 8505>>, <<8508, 8511>>, <<8517, 8521>>, <<8526, 8526>>, <<8544, 8575>>, <<8579, 8580>>,
    <<9398, 9449>>, <<11264, 11387>>, <<11390, 11492>>, <<11499, 11502>>, <<11506, 11507>>, <<11520, 11557>>,
    <<11559, 11559>>, <<11565, 11565>>, <<42560, 42605>>, <<42624, 42651>>, <<42786, 42863>>, <<42865, 42887>>,
    <<42891, 42894>>, <<42896, 42954>>, <<42960, 42961>>, <<42963, 42963>>, <<42965, 42969>>, <<42997, 42998>>,
    <<43002, 43002>>, <<43824, 43866>>, <<43872, 43880>>, <<43888, 43967>>, <<64256, 64262>>, <<64275, 64279>>,
    <<65313, 65338>>, <<65345, 65370>>, <<66560, 66639>>, <<66736, 66771>>, <<66776, 66811>>, <<66928, 66938>>,
    <<66940, 66954>>, <<66956, 66962>>, <<66964, 66965>>, <<66967, 66977>>, <<66979, 66993>>, <<66995, 67001>>,
    <<67003, 67004>>, <<68736, 68786>>, <<68800, 68850>>, <<71840, 71903>>, <<93760, 93823>>, <<119808, 119892>>,
    <<119894, 119964>>, <<119966, 119967>>, <<119970, 119970>>, <<119973, 119974>>, <<119977, 119980>>, <<119982, 119993>>,
    <<119995, 119995>>, <<119997, 120003>>, <<120005, 120069>>, <<120071, 120074>>, <<120077, 120084>>, <<120086, 120092>>,
    <<120094, 120121>>, <<120123, 120126>>, <<120128, 120132>>, <<120134, 120134>>, <<120138, 120144>>, <<120146, 120485>>,
    <<120488, 120512>>, <<120514, 120538>>, <<120540, 120570>>, <<120572, 120596>>, <<120598, 120628>>, <<120630, 120654>>,
    <<120656, 120686>>, <<120688, 120712>>, <<120714, 120744>>, <<120746, 120770>>, <<120772, 120779>>, <<122624, 122633>>,
    <<122635, 122654>>, <<125184, 125251>>, <<127280, 127305>>, <<127312, 127337>>, <<127344, 127369>> >>

CaseIgnorableRanges == <<
    <<39, 39>>, <<46, 46>>, <<58, 58>>, <<94, 94>>, <<96, 96>>, <<168, 168>>,
    <<173, 173>>, <<175, 175>>, <<180, 180>>, <<183, 184>>, <<688, 879>>, <<884, 885>>,
    <<890, 890>>, <<900, 901>>, <<903, 903>>, <<1155, 1161>>, <<1369, 1369>>, <<1375, 1375>>,
    <<1425, 1469>>, <<1471, 1471>>, <<1473, 1474>>, <<1476, 1477>>, <<1479, 1479>>, <<1524, 1524>>,
    <<1536, 1541>>, <<1552, 1562>>, <<1564, 1564>>, <<1600, 1600>>, <<1611, 1631>>, <<1648, 1648>>,
    <<1750, 1757>>, <<1759, 1768>>, <<1770, 1773>>, <<1807, 1807>>, <<1809, 1809>>, <<1840, 1866>>,
    <<1958, 1968>>, <<2027, 2037>>, <<2042, 2042>>, <<2045, 2045>>, <<2070, 2093>>, <<2137, 2139>>,
    <<2184, 2184>>, <<2192, 2193>>, <<2200, 2207>>, <<2249, 2306>>, <<2362, 2362>>, <<2364, 2364>>,
    <<2369, 2376>>, <<2381, 2381>>, <<2385, 2391>>, <<2402, 2403>>, <<2417, 2417>>, <<2433, 2433>>,
    <<2492, 2492>>, <<2497, 2500>>, <<2509, 2509>>, <<2530, 2531>>, <<2558, 2558>>, <<2561, 2562>>,
    <<2620, 2620>>, <<2625, 2626>>, <<2631, 2632>>, <<2635, 2637>>, <<2641, 2641>>, <<2672, 2673>>,
    <<2677, 2677>>, <<2689, 2690>>, <<2748, 2748>>, <<2753, 2757>>, <<2759, 2760>>, <<2765, 2765>>,
    <<2786, 2787>>, <<2810, 2815>>, <<2817, 2817>>, <<2876, 2876>>, <<2879, 2879>>, <<2881, 2884>>,
    <<2893, 2893>>, <<2901, 2902>>, <<2914, 2915>>, <<2946, 2946>>, <<3008, 3008>>, <<3021, 3021>>,
    <<3072, 3072>>, <<3076, 3076>>, <<3132, 3132>>, <<3134, 3136>>, <<3142, 3144>>, <<3146, 3149>>,
    <<3157, 3158>>, <<3170, 3171>>, <<3201, 3201>>, <<3260, 3260>>, <<3263, 3263>>, <<3270, 3270>>,
    <<3276, 3277>>, <<3298, 3299>>, <<3328, 3329>>, <<3387, 3388>>, <<3393, 3396>>, <<3405, 3405>>,
    <<3426, 3427>>, <<3457, 3457>>, <<3530, 3530>>, <<3538, 3540>>, <<3542, 3542>>, <<3633, 3633>>,
    <<3636, 3642>>, <<3654, 3662>>, <<3761, 3761>>, <<3764, 3772>>, <<3782, 3782>>, <<3784, 3789>>,
    <<3864, 3865>>, <<3893, 3893>>, <<3895, 3895>>, <<3897, 3897>>, <<3953, 3966>>, <<3968, 3972>>,
    <<3974, 3975>>, <<3981, 3991>>, <<3993, 4028>>, <<4038, 4038>>, <<4141, 4144>>, <<4146, 4151>>,
    <<4153, 4154>>, <<4157, 4158>>, <<4184, 4185>>, <<4190, 4192>>, <<4209, 4212>>, <<4226, 4226>>,
    <<4229, 4230>>, <<4237, 4237>>, <<4253, 4253>>, <<4348, 4348>>, <<4957, 4959>>, <<5906, 5908>>,
    <<5938, 5939>>, <<5970, 5971>>, <<6002, 6003>>, <<6068, 6069>>, <<6071, 6077>>, <<6086, 6086>>,
    <<6089, 6099>>, <<6103, 6103>>, <<6109, 6109>>, <<6155, 6159>>, <<6211, 6211>>, <<6277, 6278>>,
    <<6313, 6313>>, <<6432, 6434>>, <<6439, 6440>>, <<6450, 6450>>, <<6457, 6459>>, <<6679, 6680>>,
    <<6683, 6683>>, <<6742, 6742>>, <<6744, 6750>>, <<6752, 6752>>, <<6754, 6754>>, <<6757, 6764>>,
    <<6771, 6780>>, <<6783, 6783>>, <<6823, 6823>>, <<6832, 6862>>, <<6912, 6915>>, <<6964, 6964>>,
    <<6966, 6970>>, <<6972, 6972>>, <<6978, 6978>>, <<7019, 7027>>, <<7040, 7041>>, <<7074, 7077>>,
    <<7080, 7081>>, <<7083, 7085>>, <<7142, 7142>>, <<7144, 7145>>, <<7149, 7149>>, <<7151, 7153>>,
    <<7212, 7219>>, <<7222, 7223>>, <<7288, 7293>>, <<7376, 7378>>, <<7380, 7392>>, <<7394, 7400>>,
    <<7405, 7405>>, <<7412, 7412>>, <<7416, 7417>>, <<7468, 7530>>, <<7544, 7544>>, <<7579, 7679>>,
    <<8125, 8125>>, <<8127, 8129>>, <<8141, 8143>>, <<8157, 8159>>, <<8173, 8175>>, <<8189, 8190>>,
    <<8203, 8207>>, <<8216, 8217>>, <<8228, 8228>>, <<8231, 8231>>, <<8234, 8238>>, <<8288, 8292>>,
    <<8294, 8303>>, <<8305, 8305>>, <<8319, 8319>>, <<8336, 8348>>, <<8400, 8432>>, <<11388, 11389>>,
    <<11503, 11505>>, <<11631, 11631>>, <<11647, 11647>>, <<11744, 11775>>, <<11823, 11823>>, <<12293, 12293>>,
    <<12330, 12333>>, <<12337, 12341>>, <<12347, 12347>>, <<12441, 12446>>, <<12540, 12542>>, <<40981, 40981>>,
    <<42232, 42237>>, <<42508, 42508>>, <<42607, 42610>>, <<42612, 42621>>, <<42623, 42623>>, <<42652, 42655>>,
    <<42736, 42737>>, <<42752, 42785>>, <<42864, 42864>>, <<42888, 42890>>, <<42994, 42996>>, <<43000, 43001>>,
    <<43010, 43010>>, <<43014, 43014>>, <<43019, 43019>>, <<43045, 43046>>, <<43052, 43052>>, <<43204, 43205>>,
    <<43232, 43249>>, <<43263, 43263>>, <<43302, 43309>>, <<43335, 43345>>, <<43392, 43394>>, <<43443, 43443>>,
    <<43446, 43449>>, <<43452, 43453>>, <<43471, 43471>>, <<43493, 43494>>, <<43561, 43566>>, <<43569, 43570>>,
    <<43573, 43574>>, <<43587, 43587>>, <<43596, 43596>>, <<43632, 43632>>, <<43644, 43644>>, <<43696, 43696>>,
    <<43698, 43700>>, <<43703, 43704>>, <<43710, 43711>>, <<43713, 43713>>, <<43741, 43741>>, <<43756, 43757>>,
    <<43763, 43764>>, <<43766, 43766>>, <<43867, 43871>>, <<43881, 43883>>, <<44005, 44005>>, <<44008, 44008>>,
    <<44013, 44013>>, <<64286, 64286>>, <<64434, 64450>>, <<65024, 65039>>, <<65043, 65043>>, <<65056, 65071>>,
    <<65106, 65106>>, <<65109, 65109>>, <<65279, 65279>>, <<65287, 65287>>, <<65294, 65294>>, <<65306, 65306>>,
    <<65342, 65342>>, <<65344, 65344>>, <<65392, 65392>>, <<65438, 65439>>, <<65507, 65507>>, <<65529, 65531>>,
    <<66045, 66045>>, <<66272, 66272>>, <<66422, 66426>>, <<67456, 67461>>, <<67463, 67504>>, <<67506, 67514>>,
    <<68097, 68099>>, <<68101, 68102>>, <<68108, 68111>>, <<68152, 68154>>, <<68159, 68159>>, <<68325, 68326>>,
    <<68900, 68903>>, <<69291, 69292>>, <<69446, 69456>>, <<69506, 69509>>, <<69633, 69633>>, <<69688, 69702>>,
    <<69744, 69744>>, <<69747, 69748>>, <<69759, 69761>>, <<69811, 69814>>, <<69817, 69818>>, <<69821, 69821>>,
    <<69826, 69826>>, <<69837, 69837>>, <<69888, 69890>>, <<69927, 69931>>, <<69933, 69940>>, <<70003, 70003>>,
    <<70016, 70017>>, <<70070, 70078>>, <<70089, 70092>>, <<70095, 70095>>, <<70191, 70193>>, <<70196, 70196>>,
    <<70198, 70199>>, <<70206, 70206>>, <<70367, 70367>>, <<70371, 70378>>, <<70400, 70401>>, <<70459, 70460>>,
    <<70464, 70464>>, <<70502, 70508>>, <<70512, 70516>>, <<70712, 70719>>, <<70722, 70724>>, <<70726, 70726>>,
    <<70750, 70750>>, <<70835, 70840>>, <<70842, 70842>>, <<70847, 70848>>, <<70850, 70851>>, <<71090, 71093>>,
    <<71100, 71101>>, <<71103, 71104>>, <<71132, 71133>>, <<71219, 71226>>, <<71229, 71229>>, <<71231, 71232>>,
    <<71339, 71339>>, <<71341, 71341>>, <<71344, 71349>>, <<71351, 71351>>, <<71453, 71455>>, <<71458, 71461>>,
    <<71463, 71467>>, <<71727, 71735>>, <<71737, 71738>>, <<71995, 71996>>, <<71998, 71998>>, <<72003, 72003>>,
    <<72148, 72151>>, <<72154, 72155>>, <<72160, 72160>>, <<72193, 72202>>, <<72243, 72248>>, <<72251, 72254>>,
    <<72263, 72263>>, <<72273, 72278>>, <<72281, 72283>>, <<72330, 72342>>, <<72344, 72345>>, <<72752, 72758>>,
    <<72760, 72765>>, <<72767, 72767>>, <<72850, 72871>>, <<72874, 72880>>, <<72882, 72883>>, <<72885, 72886>>,
    <<73009, 73014>>, <<73018, 73018>>, <<73020, 73021>>, <<73023, 73029>>, <<73031, 73031>>, <<73104, 73105>>,
    <<73109, 73109>>, <<73111, 73111>>, <<73459, 73460>>, <<78896, 78904>>, <<92912, 92916>>, <<92976, 92982>>,
    <<92992, 92995>>, <<94031, 94031>>, <<94095, 94111>>, <<94176, 94177>>, <<94179, 94180>>, <<110576, 110579>>,
    <<110581, 110587>>, <<110589, 110590>>, <<113821, 113822>>, <<113824, 113827>>, <<118528, 118573>>, <<118576, 118598>>,
    <<119143, 119145>>, <<119155, 119170>>, <<119173, 119179>>, <<119210, 119213>>, <<119362, 119364>>, <<121344, 121398>>,
    <<121403, 121452>>, <<121461, 121461>>, <<121476, 121476>>, <<121499, 121503>>, <<121505, 121519>>, <<122880, 122886>>,
    <<122888, 122904>>, <<122907, 122913>>, <<122915, 122916>>, <<122918, 122922>>, <<123184, 123197>>, <<123566, 123566>>,
    <<123628, 123631>>, <<125136, 125142>>, <<125252, 125259>>, <<127995, 127999>>, <<917505, 917505>>, <<917536, 917631>>,
    <<917760, 917999>> >>

InRange(n, r) == r[1] <= n /\ n <= r[2]
IsCased(n) == \E i \in DOMAIN CasedRanges : InRange(n, CasedRanges[i])
IsCaseIgnorable(n) == \E i \in DOMAIN CaseIgnorableRanges : InRange(n, CaseIgnorableRanges[i])

CapitalSigma == 931
FinalSigma == 962
CapitalIDot == 304

\* The lower case of one code point on its own, as a sequence of code
\* points: capital I with dot above becomes i and a combining dot.
LowerCode(n) ==
    IF n = CapitalIDot THEN <<105, 775>>
    ELSE IF \E i \in DOMAIN LowerRules :
                InRange(n, LowerRules[i]) /\ (n - LowerRules[i][1]) % LowerRules[i][3] = 0
    THEN LET r == LowerRules[CHOOSE i \in DOMAIN LowerRules :
                     InRange(n, LowerRules[i]) /\ (n - LowerRules[i][1]) % LowerRules[i][3] = 0]
         IN <<n + r[4]>>
    ELSE <<n>>

\* A capital sigma at s[i] ends a word: the nearest character before it
\* that is not case-ignorable is cased, and the nearest one after it, if
\* any, is not.
IsFinalSigma(s, i) ==
    /\ \E j \in 1..(i - 1) :
          /\ ~IsCaseIgnorable(Ord[s[j]])
          /\ \A k \in (j + 1)..(i - 1) : IsCaseIgnorable(Ord[s[k]])
          /\ IsCased(Ord[s[j]])
    /\ \A j \in (i + 1)..Len(s) :
          (/\ ~IsCaseIgnorable(Ord[s[j]])
           /\ \A k \in (i + 1)..(j - 1) : IsCaseIgnorable(Ord[s[k]]))
              => ~IsCased(Ord[s[j]])

\* The lower case of one character on its own.
LowerChar(c) == [i \in DOMAIN LowerCode(Ord[c]) |-> Chr(LowerCode(Ord[c])[i])]

\* str.lower()
Lower(s) ==
    Flatten([i \in DOMAIN s |->
                IF Ord[s[i]] = CapitalSigma /\ IsFinalSigma(s, i)
                THEN <<Chr(FinalSigma)>>
                ELSE LowerChar(s[i])])

\* Arguments the user interface passes to the handlers.
Queries == {EmptyStr, <<" ">>, <<"\f", "U+00A0">>, <<" ", "A", "U+0130", "U+03A3", "U+00A0">>}
Providers == {EmptyStr, <<"P">>}
Models == {EmptyStr, <<"m">>, AutoModel}
\* Results of fetch_unique_titles: lists of article titles.
SearchResults == {<< >>, <<<<"x">>>>, <<<<"x">>, <<"y">>>>}

Card(kind, content) == [card |-> kind, content |-> content]
Output(html, info) == [html |-> html, info |-> info]

\* Variant: the query is tested without strip().
IsBlank_NoStrip(q) == q = EmptyStr

\* if not query_text.strip()
IsBlank(q) == Strip(q) = EmptyStr

\* The payload dictionaries: query_text and provider as the handlers
\* normalise them; feed_author, feed_name, limit and title_keywords take no
\* part in any branch and are left out.
AiPayload(q, prov, mod) ==
    [query_text |-> Lower(Strip(q)), provider |-> Lower(prov),
     has_model |-> mod # AutoModel,
     model |-> IF mod # AutoModel THEN mod ELSE EmptyStr]
SearchPayload(q) ==
    [query_text |-> Lower(Strip(q)), provider |-> EmptyStr,
     has_model |-> FALSE, model |-> EmptyStr]

\* model_info = f"<div class='content'>Provider: {provider}</div>"
ProviderInfo(prov) == [provider |-> prov, has_model |-> FALSE, model |-> EmptyStr]
\* model_info = f"... Provider: {provider} | Model: {content}</div>"
ProviderModelInfo(prov, name) == [provider |-> prov, has_model |-> TRUE, model |-> name]

\* The handler is started by the user interface: no generator exists yet.
InitUI ==
    /\ handler \in {"search", "stream", "plain"}
    /\ hpc = "entry"
    /\ query_text \in Queries
    /\ provider \in Providers
    /\ model \in Models
    /\ (handler = "search" => provider = EmptyStr /\ model = EmptyStr)
    /\ calls = << >>
    /\ answer_html = << >>
    /\ model_info = NoInfo
    /\ handled = 0
    /\ outputs = << >>
    /\ streaming = FALSE
    /\ pc = "uncalled"
    /\ conn = "none"
    /\ consumed = << >>
    /\ used = 0
    /\ answer_text = EmptyStr
    /\ events = << >>
    /\ failure = NoFailure
    /\ response = NoResponse
    /\ cancelled = FALSE
    /\ FreshPair

\* The generator of call_ai loses its last reference while suspended:
\* it is closed as by Cancel; a generator that has returned is left as is.
DropGenerator ==
    /\ pc' = "done"
    /\ cancelled' = (pc \in YieldPcs)
    /\ conn' = IF conn = "open" THEN "closed" ELSE conn
    /\ UNCHANGED <<streaming, consumed, used, answer_text, events, failure, response>>

\* handle_search_articles up to its request: a blank query returns the
\* validation message; otherwise the payload is built and the handler
\* stays inside fetch_unique_titles until the backend has answered.
HandleSearchArticles ==
    /\ handler = "search" /\ hpc = "entry"
    /\ IF IsBlank(query_text)
       THEN /\ outputs' = Append(outputs, Output(<<Card("message", ValidationMessage)>>, NoInfo))
            /\ hpc' = "returned"
            /\ UNCHANGED calls
       ELSE /\ calls' = Append(calls, [fn |-> "fetch_unique_titles",
                                        payload |-> SearchPayload(query_text)])
            /\ hpc' = "fetching"
            /\ UNCHANGED outputs
    /\ UNCHANGED <<handler, query_text, provider, model, answer_html, model_info, handled>>
    /\ UNCHANGED cvars
    /\ UNCHANGED pvars

\* fetch_unique_titles returns the titles and the handler returns them
\* rendered, or "No results found." for none.
SearchReturns ==
    /\ handler = "search" /\ hpc = "fetching"
    /\ \E results \in SearchResults :
          outputs' = Append(outputs, Output(
              IF results = << >>
              THEN <<Card("message", NoResultsMessage)>>
              ELSE [i \in DOMAIN results |-> Card("article", results[i])],
              NoInfo))
    /\ hpc' = "returned"
    /\ UNCHANGED <<handler, query_text, provider, model, calls, answer_html, model_info, handled>>
    /\ UNCHANGED cvars
    /\ UNCHANGED pvars

\* fetch_unique_titles raises and the handler returns the error text.
SearchFails ==
    /\ handler = "search" /\ hpc = "fetching"
    /\ \E e \in ExcMessages :
          outputs' = Append(outputs,
              Output(<<Card("fetch_error", FetchPrefix \o e)>>, NoInfo))
    /\ hpc' = "returned"
    /\ UNCHANGED <<handler, query_text, provider, model, calls, answer_html, model_info, handled>>
    /\ UNCHANGED cvars
    /\ UNCHANGED pvars

\* The two AI handlers up to their loop: validation, payload, call_ai(...).
\* The non-streaming handler returns its validation message; the streaming
\* handler is a generator, it yields the message and stays suspended at
\* that yield, its return still to come.
EnterAiHandler(h, stream) ==
    /\ handler = h /\ hpc = "entry"
    /\ IF IsBlank(query_text)
       THEN /\ outputs' = Append(outputs, Output(<<Card("message", ValidationMessage)>>, NoInfo))
            /\ hpc' = IF stream THEN "yielded_message" ELSE "returned"
            /\ UNCHANGED <<calls, model_info, streaming, pc>>
       ELSE IF provider = EmptyStr \/ model = EmptyStr
       THEN /\ outputs' = Append(outputs, Output(<<Card("message", SelectMessage)>>, NoInfo))
            /\ hpc' = IF stream THEN "yielded_message" ELSE "returned"
            /\ UNCHANGED <<calls, model_info, streaming, pc>>
       ELSE /\ calls' = Append(calls, [fn |-> "call_ai",
                                        payload |-> AiPayload(query_text, provider, model)])
            /\ model_info' = ProviderInfo(provider)
            /\ streaming' = stream
            /\ pc' = "start"
            /\ hpc' = "loop"
            /\ UNCHANGED outputs
    /\ UNCHANGED <<handler, query_text, provider, model, answer_html, handled>>
    /\ UNCHANGED <<conn, consumed, used, answer_text, events, failure, response, cancelled>>
    /\ UNCHANGED pvars

StreamingEnter == EnterAiHandler("stream", TRUE)
NonStreamingEnter == EnterAiHandler("plain", FALSE)

\* Variant: a text event is appended to the current answer HTML.
RenderText_Append(html, content) == html \o <<Card("answer", content)>>

\* answer_html after a text event: rebuilt from the event's content.
RenderText(html, content) == <<Card("answer", content)>>

\* answer_html after a truncated event: the warning card is appended.
RenderTruncated(html, content) == html \o <<Card("warning", content)>>

\* The next event of call_ai that the handler's loop has not taken yet.
PendingEvent == events[handled + 1]

\* One turn of the loop of handle_ai_question_streaming: the event just
\* yielded by call_ai is rendered and yielded to the user interface.
StreamingOnEvent ==
    /\ handler = "stream" /\ hpc = "loop"
    /\ handled < Len(events)
    /\ LET ev == PendingEvent IN
       CASE ev.type = "text" ->
              /\ answer_html' = RenderText(answer_html, ev.content)
              /\ outputs' = Append(outputs, Output(answer_html', model_info))
              /\ UNCHANGED model_info
         [] ev.type = "model" ->
              /\ model_info' = ProviderModelInfo(provider, ev.content)
              /\ outputs' = Append(outputs, Output(answer_html, model_info'))
              /\ UNCHANGED answer_html
         [] ev.type = "truncated" ->
              /\ answer_html' = RenderTruncated(answer_html, ev.content)
              /\ outputs' = Append(outputs, Output(answer_html', model_info))
              /\ UNCHANGED model_info
         [] ev.type = "error" ->
              /\ outputs' = Append(outputs, Output(<<Card("error", ev.content)>>, model_info))
              /\ UNCHANGED <<answer_html, model_info>>
    /\ handled' = handled + 1
    /\ hpc' = "yielded"
    /\ UNCHANGED <<handler, query_text, provider, model, calls>>
    /\ UNCHANGED cvars
    /\ UNCHANGED pvars

\* The user interface asks the streaming handler for its next output:
\* after an error event the loop breaks and the generator of call_ai is
\* dropped, otherwise the loop asks call_ai for its next event.
StreamingResume ==
    /\ handler = "stream" /\ hpc = "yielded"
    /\ IF events[handled].type = "error"
       THEN /\ hpc' = "returned"
            /\ DropGenerator
       ELSE /\ hpc' = "loop"
            /\ UNCHANGED cvars
    /\ UNCHANGED <<handler, query_text, provider, model, calls, answer_html, model_info, handled, outputs>>
    /\ UNCHANGED pvars

\* The user interface asks the streaming handler for its next output after
\* a validation message: the handler returns, call_ai was never called.
StreamingMessageResume ==
    /\ handler = "stream" /\ hpc = "yielded_message"
    /\ hpc' = "returned"
    /\ UNCHANGED <<handler, query_text, provider, model, calls, answer_html, model_info, handled, outputs>>
    /\ UNCHANGED cvars
    /\ UNCHANGED pvars

\* call_ai is exhausted: the loop and the streaming handler end.
StreamingLoopEnd ==
    /\ handler = "stream" /\ hpc = "loop"
    /\ pc = "done"
    /\ hpc' = "returned"
    /\ UNCHANGED <<handler, query_text, provider, model, calls, answer_html, model_info, handled, outputs>>
    /\ UNCHANGED cvars
    /\ UNCHANGED pvars

\* The user interface closes the suspended streaming handler (a new
\* request cancels the one in flight): its frame goes, and with it the
\* only reference to the generator of call_ai, if call_ai was called.
StreamingCancel ==
    /\ handler = "stream" /\ hpc \in {"yielded", "yielded_message"}
    /\ hpc' = "closed"
    /\ IF hpc = "yielded" THEN DropGenerator ELSE UNCHANGED cvars
    /\ UNCHANGED <<handler, query_text, provider, model, calls, answer_html, model_info, handled, outputs>>
    /\ UNCHANGED pvars

\* One turn of the loop of handle_ai_question_non_streaming: an error
\* event is returned at once, the other events only update the locals.
NonStreamingOnEvent ==
    /\ handler = "plain" /\ hpc = "loop"
    /\ handled < Len(events)
    /\ LET ev == PendingEvent IN
       CASE ev.type = "text" ->
              /\ answer_html' = RenderText(answer_html, ev.content)
              /\ hpc' = "loop"
              /\ UNCHANGED <<model_info, outputs>>
              /\ UNCHANGED cvars
         [] ev.type = "model" ->
              /\ model_info' = ProviderModelInfo(provider, ev.content)
              /\ hpc' = "loop"
              /\ UNCHANGED <<answer_html, outputs>>
              /\ UNCHANGED cvars
         [] ev.type = "truncated" ->
              /\ answer_html' = RenderTruncated(answer_html, ev.content)
              /\ hpc' = "loop"
              /\ UNCHANGED <<model_info, outputs>>
              /\ UNCHANGED cvars
         [] ev.type = "error" ->
              /\ outputs' = Append(outputs, Output(<<Card("error", ev.content)>>, model_info))
              /\ hpc' = "returned"
              /\ DropGenerator
              /\ UNCHANGED <<answer_html, model_info>>
    /\ handled' = handled + 1
    /\ UNCHANGED <<handler, query_text, provider, model, calls>>
    /\ UNCHANGED pvars

\* call_ai is exhausted: return answer_html, model_info.
NonStreamingReturn ==
    /\ handler = "plain" /\ hpc = "loop"
    /\ pc = "done"
    /\ outputs' = Append(outputs, Output(answer_html, model_info))
    /\ hpc' = "returned"
    /\ UNCHANGED <<handler, query_text, provider, model, calls, answer_html, model_info, handled>>
    /\ UNCHANGED cvars
    /\ UNCHANGED pvars

\* The handler's loop is inside next() of call_ai: the generator runs to
\* its next yield or to its end.
RunCallAi ==
    /\ hpc = "loop"
    /\ handled = Len(events)
    /\ \/ PostStream
       \/ PostStreamConnectFails
       \/ PostStreamStatusFails
       \/ IterChunk
       \/ IterStop
       \/ IterRaises
       \/ ResumeChunk
       \/ PostPlain
       \/ PostPlainFails
       \/ ResumeAnswer
       \/ ResumeFinish

NextUI ==
    \/ HandleSearchArticles
    \/ SearchReturns
    \/ SearchFails
    \/ StreamingEnter
    \/ NonStreamingEnter
    \/ StreamingMessageResume
    \/ StreamingOnEvent
    \/ StreamingResume
    \/ StreamingLoopEnd
    \/ StreamingCancel
    \/ NonStreamingOnEvent
    \/ NonStreamingReturn
    \/ RunCallAi

SpecUI == InitUI /\ [][NextUI]_vars

\* ------------------------------------------------- two runs side by side
\* Two streaming call_ai generators, each with its own response, driven in
\* any interleaving of their steps.  A step is one of the steps of the
\* single run above, taken in the frame of run r.
\* Bounds of each of the two responses, in chunks and in pieces.
MaxPairFrags == 2
MaxPairBody == 2
PairPieces == {<<"a">>, <<" ">>, ErrorMarker}
PairPieceSeqs(n) == UNION {[1..k -> PairPieces] : k \in 0..n}

\* Variant: answer_text is one module-level variable of both runs.
Owner_Shared(r) == 1

\* The frame whose answer_text run r reads and writes: answer_text is a
\* local of call_ai, so each run has its own.
Owner(r) == r

IdleSingle ==
    /\ streaming = TRUE
    /\ pc = "uncalled"
    /\ conn = "none"
    /\ consumed = << >>
    /\ used = 0
    /\ answer_text = EmptyStr
    /\ events = << >>
    /\ failure = NoFailure
    /\ response = NoResponse
    /\ cancelled = FALSE

InitPair ==
    /\ IdleSingle
    /\ NoHandler
    /\ FreshPair

\* The first next() of run r: post and raise_for_status succeed.
PairPost(r) ==
    /\ runs[r].pc = "start"
    /\ runs' = [runs EXCEPT ![r].pc = "iter"]
    /\ texts' = [texts EXCEPT ![Owner(r)] = EmptyStr]
    /\ UNCHANGED <<cvars, hvars>>

\* post or raise_for_status raises in run r.
PairPostFails(r) ==
    /\ runs[r].pc = "start"
    /\ \E e \in ExcMessages :
          runs' = [runs EXCEPT ![r].pc = "yield_except",
                               ![r].failure = e,
                               ![r].events = Append(@, ExceptEvent(e))]
    /\ texts' = [texts EXCEPT ![Owner(r)] = EmptyStr]
    /\ UNCHANGED <<cvars, hvars>>

\* One turn of the loop of run r.
PairChunk(r) ==
    /\ runs[r].pc = "iter"
    /\ Len(runs[r].consumed) < MaxPairFrags
    /\ \E ps \in PairPieceSeqs(MaxPairBody - runs[r].used) :
          LET chunk == Flatten(ps)
              text == texts[Owner(r)]
          IN  IF ChunkKind(chunk) = "empty"
              THEN /\ runs' = [runs EXCEPT ![r].consumed = Append(@, chunk),
                                           ![r].used = @ + Len(ps)]
                   /\ UNCHANGED texts
              ELSE /\ runs' = [runs EXCEPT ![r].consumed = Append(@, chunk),
                                           ![r].used = @ + Len(ps),
                                           ![r].events = Append(@, ChunkEvent(chunk, text)),
                                           ![r].pc = AfterYield(chunk)]
                   /\ texts' = [texts EXCEPT ![Owner(r)] = NextAnswerText(chunk, text)]
    /\ UNCHANGED <<cvars, hvars>>

\* iter_content of run r is exhausted.
PairStop(r) ==
    /\ runs[r].pc = "iter"
    /\ runs' = [runs EXCEPT ![r].pc = "done"]
    /\ UNCHANGED texts
    /\ UNCHANGED <<cvars, hvars>>

\* iter_content of run r raises.
PairRaises(r) ==
    /\ runs[r].pc = "iter"
    /\ \E e \in ExcMessages :
          runs' = [runs EXCEPT ![r].pc = "yield_except",
                               ![r].failure = e,
                               ![r].events = Append(@, ExceptEvent(e))]
    /\ UNCHANGED texts
    /\ UNCHANGED <<cvars, hvars>>

\* next() on run r while it is suspended at a yield.
PairResume(r) ==
    /\ runs[r].pc \in {"yield_chunk", "yield_error_marker", "yield_except"}
    /\ runs' = [runs EXCEPT ![r].pc = IF @ = "yield_chunk" THEN "iter" ELSE "done"]
    /\ UNCHANGED texts
    /\ UNCHANGED <<cvars, hvars>>

NextPair ==
    \E r \in RunIds :
        \/ PairPost(r)
        \/ PairPostFails(r)
        \/ PairChunk(r)
        \/ PairStop(r)
        \/ PairRaises(r)
        \/ PairResume(r)

SpecPair == InitPair /\ [][NextPair]_vars

Next ==
    \/ PostStream
    \/ PostStreamConnectFails
    \/ PostStreamStatusFails
    \/ IterChunk
    \/ IterStop
    \/ IterRaises
    \/ ResumeChunk
    \/ ResumeBreak
    \/ ResumeExcept
    \/ PostPlain
    \/ PostPlainFails
    \/ ResumeAnswer
    \/ ResumeFinish
    \/ Cancel

Spec == Init /\ [][Next]_vars

TypeOK ==
    /\ streaming \in BOOLEAN
    /\ pc \in {"uncalled", "start", "iter", "done", "raised"} \cup YieldPcs
    /\ handler \in {"none", "search", "stream", "plain"}
    /\ hpc \in {"idle", "entry", "fetching", "loop", "yielded", "yielded_message", "returned", "closed"}
    /\ handled \in 0..Len(events)
    /\ conn \in {"none", "open", "closed"}
    /\ Len(consumed) <= MaxFrags
    /\ used \in 0..MaxBody
    /\ cancelled \in BOOLEAN

\* ------------------------------------------------------------ properties
NonEmpty(f) == f # << >>
BeginsWithMarker(f) ==
    \/ StartsWith(f, ModelMarker)
    \/ StartsWith(f, ErrorMarker)
    \/ StartsWith(f, TruncatedMarker)
IsOrdinary(f) == NonEmpty(f) /\ ~BeginsWithMarker(f)
IsTextEvent(ev) == ev.type = "text"
IsErrorEvent(ev) == ev.type = "error"
Contains(s, m) == \E i \in 1..(Len(s) - Len(m) + 1) : SubSeq(s, i, i + Len(m) - 1) = m
ContainsMarker(f) ==
    \/ Contains(f, ModelMarker)
    \/ Contains(f, ErrorMarker)
    \/ Contains(f, TruncatedMarker)
EndsWith(s, t) == Len(s) >= Len(t) /\ SubSeq(s, Len(s) - Len(t) + 1, Len(s)) = t
Last(s) == s[Len(s)]
\* The text of the latest text event, the empty string when there is none.
LastTextContent(evs) ==
    LET txt == SelectSeq(evs, IsTextEvent) IN
    IF txt = << >> THEN EmptyStr ELSE Last(txt).content
\* A step in which iter_content delivered one more chunk.
Pulled == Len(consumed') = Len(consumed) + 1

\* C1: a streaming run yields at most one error event, and an error event
\* is the last event yielded.
C1_AtMostOneFailedAndLast ==
    streaming =>
        /\ Len(SelectSeq(events, IsErrorEvent)) <= 1
        /\ \A i \in DOMAIN events : IsErrorEvent(events[i]) => i = Len(events)

\* The run ended after text, then the error marker: two events, the error last.
C1_Witness ==
    /\ streaming /\ pc = "done" /\ ~cancelled
    /\ Len(events) >= 2
    /\ IsErrorEvent(Last(events))
    /\ failure = NoFailure

\* C2: a consumed chunk that begins with the error marker is the last chunk
\* ever pulled; the event yielded for it is the fixed failure message, it is
\* the last event, and the generator is at that yield or has ended.
C2_ErrorMarkerStops ==
    \A i \in DOMAIN consumed :
        StartsWith(consumed[i], ErrorMarker) =>
            /\ i = Len(consumed)
            /\ events # << >>
            /\ Last(events) = Event("error", ErrorMessage)
            /\ pc \in {"yield_error_marker", "done"}

\* The run ended on the error marker while the transport had more to deliver.
C2_Witness ==
    /\ pc = "done" /\ ~cancelled
    /\ Len(consumed) = 2 /\ Len(consumed) < MaxFrags /\ used < MaxBody
    /\ consumed[1] = <<"a">>
    /\ StartsWith(consumed[2], ErrorMarker)
    /\ Len(events) = 2

\* C3: when the transport raises, the step appends exactly one error event
\* carrying the description of the exception to the events yielded before;
\* afterwards nothing more is yielded, the generator only ends, and the
\* exception never leaves call_ai.
C3_TransportFailureYieldsOneFailed ==
    [][ /\ (failure = NoFailure /\ failure' # NoFailure) =>
              /\ events' = Append(events, ExceptEvent(failure'))
              /\ Len(SelectSeq(events', IsErrorEvent)) = 1
              /\ pc' = "yield_except"
        /\ failure # NoFailure => (events' = events /\ pc' = "done")
        /\ pc' # "raised" ]_vars

\* The transport raised after a chunk had been decoded, and the run ended.
C3_Witness ==
    /\ failure # NoFailure
    /\ pc = "done" /\ ~cancelled
    /\ Len(consumed) >= 1
    /\ Len(events) >= 2
    /\ Last(events) = ExceptEvent(failure)

\* C4: in a streaming run the j-th text event carries the concatenation of
\* the first j ordinary chunks, so each text event extends the previous one.
C4_TextIsCumulative ==
    streaming =>
        LET ord == SelectSeq(consumed, IsOrdinary)
            txt == SelectSeq(events, IsTextEvent)
        IN  /\ Len(txt) = Len(ord)
            /\ \A j \in DOMAIN txt :
                  /\ txt[j].content = Flatten(SubSeq(ord, 1, j))
                  /\ j > 1 => /\ StartsWith(txt[j].content, txt[j - 1].content)
                              /\ Len(txt[j].content) >= Len(txt[j - 1].content)

\* Three ordinary chunks were decoded into three growing text events.
C4_Witness ==
    /\ streaming
    /\ Len(SelectSeq(events, IsTextEvent)) = 3
    /\ Len(events[3].content) > Len(events[2].content)
    /\ Len(events[2].content) > Len(events[1].content)

\* C5: a chunk beginning with the model or the truncation marker leaves
\* answer_text unchanged and suspends the generator inside the loop, from
\* where next() goes on with the following chunk; and an ordinary chunk
\* yields the text of the latest text event extended by that chunk.
C5_MarkersKeepText ==
    [][ /\ Pulled =>
              LET c == Last(consumed') IN
              /\ (StartsWith(c, ModelMarker) \/ StartsWith(c, TruncatedMarker)) =>
                    /\ answer_text' = answer_text
                    /\ pc' = "yield_chunk"
                    /\ Len(events') = Len(events) + 1
                    /\ Last(events').type \in {"model", "truncated"}
              /\ IsOrdinary(c) =>
                    /\ Len(events') = Len(events) + 1
                    /\ Last(events') = Event("text", LastTextContent(events) \o c)
        /\ (pc = "yield_chunk" /\ ~cancelled') => pc' = "iter" ]_vars

\* Text, then a model or truncation marker, then text again.
C5_Witness ==
    /\ Len(events) = 3
    /\ events[1] = Event("text", <<"a">>)
    /\ events[2].type \in {"model", "truncated"}
    /\ events[3] = Event("text", <<"a", "a">>)

\* C6: the event of a chunk beginning with the model marker carries the
\* chunk without that leading prefix, trimmed.
C6_ModelNameIsPrefixStripped ==
    LET ne == SelectSeq(consumed, NonEmpty) IN
    \A k \in DOMAIN ne :
        (StartsWith(ne[k], ModelMarker) /\ k <= Len(events)) =>
            events[k] = Event("model",
                Strip(SubSeq(ne[k], Len(ModelMarker) + 1, Len(ne[k]))))

\* C7 as stated: with no marker anywhere in the chunks, N chunks give N
\* text events and answer_text is their concatenation.
C7_Original ==
    (streaming /\ \A i \in DOMAIN consumed : ~ContainsMarker(consumed[i])) =>
        LET txt == SelectSeq(events, IsTextEvent) IN
        /\ answer_text = Flatten(consumed)
        /\ Len(txt) = Len(consumed)
        /\ \A j \in DOMAIN txt : j > 1 => Len(txt[j].content) >= Len(txt[j - 1].content)

\* C7 amended: with no chunk beginning with a marker, answer_text is the
\* concatenation of the chunks consumed and there is one text event per
\* non-empty chunk, of non-decreasing length.
C7_TextEventPerNonEmptyChunk ==
    (streaming /\ \A i \in DOMAIN consumed : ~BeginsWithMarker(consumed[i])) =>
        LET txt == SelectSeq(events, IsTextEvent) IN
        /\ answer_text = Flatten(consumed)
        /\ Len(txt) = Len(SelectSeq(consumed, NonEmpty))
        /\ \A j \in DOMAIN txt : j > 1 => Len(txt[j].content) >= Len(txt[j - 1].content)

\* Marker-free chunks with an empty one among them: fewer events than chunks.
C7_Witness ==
    /\ streaming
    /\ Len(consumed) = 3
    /\ \A i \in DOMAIN consumed : ~ContainsMarker(consumed[i])
    /\ consumed[2] = << >>
    /\ Len(SelectSeq(events, IsTextEvent)) = 2
    /\ answer_text = Flatten(consumed)

\* C8: the event of a non-empty chunk is a control event exactly when the
\* chunk itself, untrimmed, begins with a marker literal; every other
\* non-empty chunk is appended to answer_text and yielded as text.
C8_MarkerIsUntrimmedPrefix ==
    [][ (Pulled /\ NonEmpty(Last(consumed'))) =>
            LET c == Last(consumed') IN
            /\ Len(events') = Len(events) + 1
            /\ (Last(events').type \in {"model", "error", "truncated"}) <=> BeginsWithMarker(c)
            /\ Last(events').type = "model" <=> StartsWith(c, ModelMarker)
            /\ Last(events').type = "error" <=> StartsWith(c, ErrorMarker)
            /\ Last(events').type = "truncated" <=> StartsWith(c, TruncatedMarker)
            /\ ~BeginsWithMarker(c) =>
                  /\ answer_text' = answer_text \o c
                  /\ Last(events') = Event("text", answer_text \o c) ]_vars

\* Part of a marker, then a marker behind whitespace: both yielded as text.
C8_Witness ==
    /\ Len(consumed) = 2
    /\ consumed[1] = PartialMarker
    /\ consumed[2] = Blank \o ErrorMarker
    /\ events = <<Event("text", PartialMarker),
                  Event("text", PartialMarker \o Blank \o ErrorMarker)>>

\* The kind of event the claim expects for a non-empty chunk.
ExpectedType(f) ==
    IF StartsWith(f, ModelMarker) THEN "model"
    ELSE IF StartsWith(f, ErrorMarker) THEN "error"
    ELSE IF StartsWith(f, TruncatedMarker) THEN "truncated"
    ELSE "text"

\* C9: in a streaming run the events yielded are, in order, one per
\* non-empty chunk consumed (plus the event of a transport exception, if
\* one was raised), and a chunk is pulled only while the generator runs its
\* loop, when the event of every earlier non-empty chunk has been yielded.
C9_IncrementalInOrder ==
    /\ [](streaming =>
            LET ne == SelectSeq(consumed, NonEmpty) IN
            /\ Len(events) = Len(ne) + (IF failure # NoFailure THEN 1 ELSE 0)
            /\ \A k \in DOMAIN ne :
                  /\ events[k].type = ExpectedType(ne[k])
                  /\ events[k].type = "text" => EndsWith(events[k].content, ne[k]))
    /\ [][ Pulled =>
              /\ pc = "iter"
              /\ Len(events) = Len(SelectSeq(consumed, NonEmpty))
              /\ Len(events') = Len(SelectSeq(consumed', NonEmpty))
              /\ (NonEmpty(Last(consumed')) => pc' \in YieldPcs) ]_vars

\* An empty chunk between two non-empty ones: two events for three chunks.
C9_Witness ==
    /\ streaming
    /\ Len(consumed) = 3
    /\ consumed[1] = Blank /\ consumed[2] = << >> /\ NonEmpty(consumed[3])
    /\ Len(events) = 2
    /\ pc \in YieldPcs

\* C10: a non-streaming run that received its response and ran to its end
\* yielded the answer as one text event, followed by one truncation event
\* exactly when finish_reason is "length"; it never yields a model event.
C10_NonStreamingEvents ==
    ~streaming =>
        /\ \A i \in DOMAIN events : events[i].type # "model"
        /\ (pc = "done" /\ ~cancelled /\ failure = NoFailure) =>
              events = <<Event("text", response.answer)>> \o
                       (IF response.finish_reason = "length"
                        THEN <<Event("truncated", TruncatedMessage)>> ELSE << >>)

\* The answer "done" with finish_reason "length": text, then truncation.
C10_Witness ==
    /\ ~streaming /\ pc = "done" /\ ~cancelled
    /\ response.finish_reason = "length"
    /\ events = <<Event("text", <<"d", "o", "n", "e">>), Event("truncated", TruncatedMessage)>>

\* C11: the streaming response, once opened, is closed in every state in
\* which the run has ended (chunks exhausted, break after the error marker,
\* transport exception, generator closed by the caller); a closed response
\* is never reopened; and once the caller has closed the generator no
\* event is added.
C11_ConnectionClosedAtEnd ==
    /\ [](pc \in {"done", "raised"} => conn # "open")
    /\ [](failure # NoFailure => conn # "open")
    /\ [][ /\ conn = "closed" => conn' = "closed"
           /\ conn = "open" => conn' \in {"open", "closed"}
           /\ (cancelled \/ cancelled') => events' = events ]_vars

\* The caller closed the generator while it was suspended after the event
\* of an ordinary chunk, with more of the body to come.
C11_Witness ==
    /\ streaming /\ cancelled /\ pc = "done"
    /\ conn = "closed"
    /\ failure = NoFailure
    /\ Len(consumed) = 2 /\ used < MaxBody
    /\ IsOrdinary(Last(consumed))
    /\ Len(events) = 2

\* A query made of whitespace only (the empty query included).
AllSpaces(q) == \A i \in DOMAIN q : IsSpace(q[i])
ValidationOutput == Output(<<Card("message", ValidationMessage)>>, NoInfo)

\* C12: for an empty or whitespace-only query each of the three handlers
\* produces exactly one output, the validation message, and invokes neither
\* call_ai nor fetch_unique_titles: no generator exists, no response opens.
\* The search and non-streaming handlers return the message; the streaming
\* handler yields it and then returns or is closed without another output.
C12_BlankQueryShortCircuits ==
    (handler \in {"search", "stream", "plain"} /\ AllSpaces(query_text)) =>
        /\ calls = << >>
        /\ pc = "uncalled" /\ conn = "none" /\ events = << >>
        /\ \/ hpc = "entry" /\ outputs = << >>
           \/ hpc = "returned" /\ outputs = <<ValidationOutput>>
           \/ /\ handler = "stream" /\ hpc \in {"yielded_message", "closed"}
              /\ outputs = <<ValidationOutput>>

\* The streaming handler has returned on a query of one space.
C12_Witness ==
    /\ handler = "stream"
    /\ query_text = <<" ">>
    /\ provider # EmptyStr /\ model # EmptyStr
    /\ hpc = "returned"
    /\ outputs = <<ValidationOutput>>

HasWarning(html) == \E i \in DOMAIN html : html[i].card = "warning"
\* A truncated event among the first n events with no text event after it.
TruncatedSinceText(evs, n) ==
    \E i \in 1..n :
        /\ evs[i].type = "truncated"
        /\ \A j \in (i + 1)..n : evs[j].type # "text"
\* The index of the latest text event among the first n events, 0 if none.
LastTextIndex(evs, n) ==
    IF \E i \in 1..n : evs[i].type = "text"
    THEN CHOOSE i \in 1..n :
            /\ evs[i].type = "text"
            /\ \A j \in (i + 1)..n : evs[j].type # "text"
    ELSE 0

\* C14: in handle_ai_question_streaming answer_html is the card of the
\* latest text event's content alone, followed by one warning card per
\* truncated event taken since; so it holds a warning exactly when a
\* truncated event came after the latest text event, and the output yielded
\* for a text, model or truncated event is that answer_html.
C14_WarningOnlySinceLastText ==
    handler = "stream" =>
        LET k == LastTextIndex(events, handled)
            warnings == {i \in (k + 1)..handled : events[i].type = "truncated"}
        IN  /\ HasWarning(answer_html) <=> TruncatedSinceText(events, handled)
            /\ Len(answer_html) = (IF k = 0 THEN 0 ELSE 1) + Cardinality(warnings)
            /\ k > 0 => answer_html[1] = Card("answer", events[k].content)
            /\ \A i \in DOMAIN answer_html :
                  (i > 1 \/ k = 0) => answer_html[i] = Card("warning", TruncatedMessage)
            /\ (hpc = "yielded" /\ events[handled].type # "error") =>
                  Last(outputs).html = answer_html

\* Text, truncation, text: the second output shows the warning, the third
\* has dropped it.
C14_Witness ==
    /\ handler = "stream" /\ hpc = "yielded"
    /\ handled = 3 /\ Len(outputs) = 3
    /\ events[1].type = "text" /\ events[2].type = "truncated" /\ events[3].type = "text"
    /\ HasWarning(outputs[2].html)
    /\ ~HasWarning(outputs[3].html)

\* What one run alone yields for the chunks frags pulled so far, starting
\* with the text acc, and for the transport exception exc, if any.
RECURSIVE DecodeAlone(_, _, _)
DecodeAlone(frags, acc, exc) ==
    IF frags = << >>
    THEN IF exc = NoFailure THEN << >> ELSE <<ExceptEvent(exc)>>
    ELSE LET chunk == Head(frags) IN
         IF chunk = << >> THEN DecodeAlone(Tail(frags), acc, exc)
         ELSE IF StartsWith(chunk, ErrorMarker) THEN <<Event("error", ErrorMessage)>>
         ELSE IF StartsWith(chunk, ModelMarker)
              THEN <<Event("model", ModelName(chunk))>> \o DecodeAlone(Tail(frags), acc, exc)
         ELSE IF StartsWith(chunk, TruncatedMarker)
              THEN <<Event("truncated", TruncatedMessage)>> \o DecodeAlone(Tail(frags), acc, exc)
         ELSE <<Event("text", acc \o chunk)>> \o DecodeAlone(Tail(frags), acc \o chunk, exc)

\* C13: in every interleaving of two runs each run has yielded exactly the
\* events of its own chunks decoded alone, whatever the other run has done;
\* and two runs that pulled the same chunks and met the same transport
\* outcome have yielded the same events.
C13_RunsAreIndependent ==
    /\ \A r \in RunIds :
          runs[r].events = DecodeAlone(runs[r].consumed, EmptyStr, runs[r].failure)
    /\ \A r1, r2 \in RunIds :
          (/\ runs[r1].consumed = runs[r2].consumed
           /\ runs[r1].failure = runs[r2].failure) =>
              runs[r1].events = runs[r2].events

\* Run 2 yielded its text after run 1 had yielded a different text: the
\* steps of the two runs were interleaved.
C13_Witness ==
    /\ runs[1].pc = "yield_chunk" /\ runs[2].pc = "yield_chunk"
    /\ runs[1].events = <<Event("text", <<"a">>), Event("text", <<"a", "a">>)>>
    /\ runs[2].events = <<Event("text", <<" ">>), Event("text", <<" ", "a">>)>>
====
